---- MODULE Spec2Model ----
(***************************************************************************)
(* A model of python-task-manager/task_manager.py: the Task record, the    *)
(* TaskManager store (tasks, next_id) and its JSON file.                   *)
(*                                                                         *)
(* Python values are tagged records [type, val], so that a value read back *)
(* from the file is whatever the file holds (from_dict copies verbatim).   *)
(* JSON values carry JSON's own tags; json_encode / json_decode translate  *)
(* between the two, as json.dump / json.load do.                           *)
(***************************************************************************)
EXTENDS Integers, Sequences, FiniteSets, TLC

VARIABLES
    tasks,      \* self.tasks: the sequence of Task objects held by the manager
    next_id,    \* self.next_id
    file,       \* the content of self.filename on disk
    clock,      \* the last reading of datetime.now()
    alive,      \* TRUE iff the process holds a manager: its construction returned
                \* and no call has raised since (main catches no exception)
    last,       \* the last call: its name, arguments, result, exception, output
    issued,     \* the ids of the tasks returned by add_task so far, in call order
    other,      \* a second process run on the same file: its manager and its call
    pc          \* where the process is in a call that other processes can
                \* interleave with: "idle" between calls, "save" before the
                \* open in save_tasks, "open" once the file is open

vars == <<tasks, next_id, file, clock, alive, last, issued, other, pc>>

---------------------------------------------------------------------------
(* Bounds of the model and the inputs the operations are called with.      *)

MaxAdds == 3        \* add_task is called while next_id <= MaxAdds
MaxClock == 1       \* datetime.now() reads 0..MaxClock (half seconds)

AddInputs == {<<"a", "d">>}     \* the (title, description) pairs add_task is given
TaskIds == 1..(MaxAdds + 1)     \* task_id arguments: every id issued, and one never issued

---------------------------------------------------------------------------
(* Python values.                                                          *)

None == [type |-> "NoneType"]
PyInt(n) == [type |-> "int", val |-> n]
PyStr(s) == [type |-> "str", val |-> s]
PyBool(b) == [type |-> "bool", val |-> b]
PyList(s) == [type |-> "list", val |-> s]
PyDict(f) == [type |-> "dict", val |-> f]

\* datetime.now().isoformat() at clock reading t. The clock is read in half
\* seconds from 2026-10-31 08:00:00: isoformat() leaves the fraction out when
\* the microsecond is 0, so a reading at a whole second gives 19 characters and
\* any other 26.
isoformat(t) ==
    LET second == t \div 2
    IN PyStr("2026-10-31T08:00:" \o (IF second < 10 THEN "0" ELSE "")
             \o ToString(second) \o (IF t % 2 = 0 THEN "" ELSE ".500000"))

\* dict.get(key, default)
dict_get(d, key, default) == IF key \in DOMAIN d.val THEN d.val[key] ELSE default

---------------------------------------------------------------------------
(* JSON documents, and json.dump / json.load on the values used here.      *)

JNull == [type |-> "null"]
JNum(n) == [type |-> "number", val |-> n]
JStr(s) == [type |-> "string", val |-> s]
JArr(s) == [type |-> "array", val |-> s]
JObj(f) == [type |-> "object", val |-> f]

RECURSIVE json_encode(_)
json_encode(v) ==
    CASE v.type = "NoneType" -> JNull
      [] v.type = "int" -> JNum(v.val)
      [] v.type = "str" -> JStr(v.val)
      [] v.type = "list" -> JArr([i \in DOMAIN v.val |-> json_encode(v.val[i])])
      [] v.type = "dict" -> JObj([k \in DOMAIN v.val |-> json_encode(v.val[k])])

RECURSIVE json_decode(_)
json_decode(j) ==
    CASE j.type = "null" -> None
      [] j.type = "number" -> PyInt(j.val)
      [] j.type = "string" -> PyStr(j.val)
      [] j.type = "array" -> PyList([i \in DOMAIN j.val |-> json_decode(j.val[i])])
      [] j.type = "object" -> PyDict([k \in DOMAIN j.val |-> json_decode(j.val[k])])

\* The number of decimal digits of n >= 0
RECURSIVE digits(_)
digits(n) == IF n < 10 THEN 1 ELSE 1 + digits(n \div 10)

\* The number of characters json.dump(..., indent=2) writes for the value j at
\* nesting depth, every item and member on a line of its own, indented by two
\* spaces per level. The strings used here need no escapes.
RECURSIVE json_len(_, _), items_len(_, _, _), members_len(_, _, _)
json_len(j, depth) ==
    CASE j.type = "null" -> 4
      [] j.type = "number" -> digits(j.val)
      [] j.type = "string" -> Len(j.val) + 2
      [] j.type = "array" ->
           IF DOMAIN j.val = {} THEN 2
           ELSE 1 + items_len(j.val, Len(j.val), depth + 1) + (Len(j.val) - 1)
                  + 1 + 2 * depth + 1
      [] j.type = "object" ->
           IF DOMAIN j.val = {} THEN 2
           ELSE 1 + members_len(j.val, DOMAIN j.val, depth + 1)
                  + (Cardinality(DOMAIN j.val) - 1) + 1 + 2 * depth + 1

\* The lines of the first n items of an array, without the commas
items_len(items, n, depth) ==
    IF n = 0 THEN 0
    ELSE items_len(items, n - 1, depth) + 1 + 2 * depth + json_len(items[n], depth)

\* The lines of the members of an object named in keys, without the commas
members_len(members, keys, depth) ==
    IF keys = {} THEN 0
    ELSE LET k == CHOOSE key \in keys : TRUE
         IN members_len(members, keys \ {k}, depth)
            + 1 + 2 * depth + (Len(k) + 2) + 2 + json_len(members[k], depth)

(* The file on disk. *)
NoFile == [kind |-> "absent"]           \* os.path.exists is False
Unreadable == [kind |-> "unreadable"]   \* exists, open(..., 'r') raises an OSError
InvalidText == [kind |-> "invalid"]     \* exists, its text is not JSON
JsonFile(doc) == [kind |-> "json", doc |-> doc]
TextFile(n) == [kind |-> "invalid", len |-> n]  \* n characters that are not JSON

\* The number of characters in the file (a file of known text)
text_len(f) ==
    CASE f.kind = "absent" -> 0
      [] f.kind = "json" -> json_len(f.doc, 0)
      [] f.kind = "invalid" -> f.len

---------------------------------------------------------------------------
(* class Task                                                              *)

\* Task.__init__(title, description, task_id), with datetime.now() reading now
Task_init(title, description, task_id, now) ==
    [id |-> task_id,
     title |-> title,
     description |-> description,
     status |-> PyStr("pending"),
     created_at |-> isoformat(now),
     completed_at |-> None]

\* Task.complete() returning at once on a task that is already completed
Task_complete_guarded(task, now) ==
    IF task.status = PyStr("completed")
    THEN task
    ELSE [task EXCEPT !.status = PyStr("completed"), !.completed_at = isoformat(now)]

\* Task.complete() without the timestamp
Task_complete_nostamp(task, now) ==
    [task EXCEPT !.status = PyStr("completed")]

\* Task.complete()
Task_complete(task, now) ==
    [task EXCEPT !.status = PyStr("completed"), !.completed_at = isoformat(now)]

\* Task.to_dict()
to_dict(task) ==
    PyDict([id |-> task.id,
            title |-> task.title,
            description |-> task.description,
            status |-> task.status,
            created_at |-> task.created_at,
            completed_at |-> task.completed_at])

\* The exception Task.from_dict(data) raises, "none" when it returns: subscripting
\* anything but a dict with a str raises TypeError, a missing key KeyError.
from_dict_raises(data) ==
    IF data.type # "dict" THEN "TypeError"
    ELSE IF \E k \in {"title", "description", "id", "status", "created_at"} :
                k \notin DOMAIN data.val
         THEN "KeyError"
         ELSE "none"

\* Task.from_dict(data) without the assignment of completed_at
from_dict_nocompleted(data, now) ==
    [Task_init(data.val["title"], data.val["description"], data.val["id"], now)
        EXCEPT !.status = data.val["status"],
               !.created_at = data.val["created_at"]]

\* Task.from_dict(data) when it returns: the constructor runs, then status and the
\* timestamps are overwritten from the dictionary.
from_dict(data, now) ==
    [Task_init(data.val["title"], data.val["description"], data.val["id"], now)
        EXCEPT !.status = data.val["status"],
               !.created_at = data.val["created_at"],
               !.completed_at = dict_get(data, "completed_at", None)]

---------------------------------------------------------------------------
(* class TaskManager: load_tasks and save_tasks                            *)

\* The exception the list comprehension of load_tasks raises over items, "none"
\* when every Task.from_dict returns: the first failing element decides.
first_error(items) ==
    LET bad == {i \in DOMAIN items : from_dict_raises(items[i]) # "none"}
    IN IF bad = {} THEN "none"
       ELSE from_dict_raises(items[CHOOSE i \in bad : \A j \in bad : i <= j])

\* The exception the body of the try block raises on the parsed document data,
\* "none" when it completes. data["tasks"] needs a dict (else TypeError) holding
\* the key (else KeyError); iterating None or an int is a TypeError; iterating a
\* non-empty str or dict yields str elements, on which from_dict raises TypeError.
load_raises(data) ==
    IF data.type # "dict" THEN "TypeError"
    ELSE IF "tasks" \notin DOMAIN data.val THEN "KeyError"
    ELSE LET ts == data.val["tasks"]
         IN CASE ts.type = "list" -> first_error(ts.val)
              [] ts.type = "str" -> IF ts.val = "" THEN "none" ELSE "TypeError"
              [] ts.type = "dict" -> IF DOMAIN ts.val = {} THEN "none" ELSE "TypeError"
              [] OTHER -> "TypeError"

\* The tasks the list comprehension builds when nothing raises.
loaded_tasks(data, now) ==
    LET ts == data.val["tasks"]
        items == IF ts.type = "list" THEN ts.val ELSE <<>>
    IN [i \in DOMAIN items |-> from_dict(items[i], now)]

\* The except branch of load_tasks: report, reset to the empty store.
load_recovered(exc) ==
    [tasks |-> <<>>, next_id |-> PyInt(1), exc |-> "none",
     printed |-> <<"Error loading tasks", exc>>]

\* load_tasks without the os.path.exists check: open raises on a missing file
load_tasks_noexists(self_tasks, self_next_id, f, now) ==
    LET same(exc) == [tasks |-> self_tasks, next_id |-> self_next_id,
                      exc |-> exc, printed |-> <<>>]
    IN CASE f.kind = "absent" -> same("OSError")
         [] f.kind = "unreadable" -> same("OSError")
         [] f.kind = "invalid" -> load_recovered("JSONDecodeError")
         [] f.kind = "json" ->
              LET data == json_decode(f.doc)
                  exc == load_raises(data)
              IN CASE exc = "none" ->
                        [tasks |-> loaded_tasks(data, now),
                         next_id |-> dict_get(data, "next_id", PyInt(1)),
                         exc |-> "none", printed |-> <<>>]
                   [] exc = "KeyError" -> load_recovered("KeyError")
                   [] OTHER -> same(exc)

\* TaskManager.load_tasks() on a manager holding (self_tasks, self_next_id), with
\* the file f on disk. Returns the manager's fields afterwards, the exception that
\* left the call ("none" when it returned) and what it printed.
load_tasks(self_tasks, self_next_id, f, now) ==
    LET same(exc) == [tasks |-> self_tasks, next_id |-> self_next_id,
                      exc |-> exc, printed |-> <<>>]
    IN CASE f.kind = "absent" -> same("none")
         [] f.kind = "unreadable" -> same("OSError")
         [] f.kind = "invalid" -> load_recovered("JSONDecodeError")
         [] f.kind = "json" ->
              LET data == json_decode(f.doc)
                  exc == load_raises(data)
              IN CASE exc = "none" ->
                        [tasks |-> loaded_tasks(data, now),
                         next_id |-> dict_get(data, "next_id", PyInt(1)),
                         exc |-> "none", printed |-> <<>>]
                   [] exc = "KeyError" -> load_recovered("KeyError")
                   [] OTHER -> same(exc)

\* save_tasks writing the tasks without the "next_id" member
save_tasks_nocounter(self_tasks, self_next_id) ==
    JsonFile(json_encode(
        PyDict([tasks |-> PyList([i \in DOMAIN self_tasks |-> to_dict(self_tasks[i])])])))

\* TaskManager.save_tasks(): the file content it writes.
save_tasks(self_tasks, self_next_id) ==
    JsonFile(json_encode(
        PyDict([tasks |-> PyList([i \in DOMAIN self_tasks |-> to_dict(self_tasks[i])]),
                next_id |-> self_next_id])))

\* TaskManager.__init__(filename): empty store, counter 1, then load_tasks.
TaskManager_init(f, now) == load_tasks(<<>>, PyInt(1), f, now)

\* TaskManager.get_task(task_id): the index of the first task with that id, 0 for
\* None.
get_task(self_tasks, task_id) ==
    LET hits == {i \in DOMAIN self_tasks : self_tasks[i].id = PyInt(task_id)}
    IN IF hits = {} THEN 0 ELSE CHOOSE i \in hits : \A j \in hits : i <= j

\* list.pop() in place of list.remove(task)
list_remove_last(s, i) == SubSeq(s, 1, Len(s) - 1)

\* list.remove(task) of the element at index i
list_remove(s, i) == [j \in 1..(Len(s) - 1) |-> IF j < i THEN s[j] ELSE s[j + 1]]

---------------------------------------------------------------------------
(* The files a manager may find on disk when it is first constructed: no   *)
(* file, a file that cannot be read, and documents that are malformed in   *)
(* each way load_tasks can meet, next to documents it loads. The documents *)
(* that load hold nothing a store of this program could not hold.          *)

PendingTaskDoc ==     \* a pending task written without its completed_at member
    JObj([id |-> JNum(1), title |-> JStr("a"), description |-> JStr(""),
          status |-> JStr("pending"), created_at |-> JStr(isoformat(0).val)])

InitialFiles ==
    {NoFile, Unreadable, InvalidText,
     JsonFile(JArr(<<>>)),                                  \* []
     JsonFile(JObj([next_id |-> JNum(1)])),                 \* no "tasks"
     JsonFile(JObj([tasks |-> JNull, next_id |-> JNum(1)])),
     JsonFile(JObj([tasks |-> JArr(<<JNum(5)>>), next_id |-> JNum(2)])),
     JsonFile(JObj([tasks |-> JArr(<<JObj([id |-> JNum(1), title |-> JStr("a")])>>),
                    next_id |-> JNum(2)])),                 \* a task lacking members
     JsonFile(JObj([tasks |-> JArr(<<>>)])),                \* no "next_id"
     JsonFile(JObj([tasks |-> JArr(<<PendingTaskDoc>>), next_id |-> JNum(2)]))}

---------------------------------------------------------------------------
(* The calls.                                                              *)

Call(op, args, ret, exc, printed, saved) ==
    [op |-> op, args |-> args, ret |-> ret, exc |-> exc,
     printed |-> printed, saved |-> saved]

\* a constructor that writes the empty store over a file load_tasks rejected
construct_rewrites ==
    LET r == TaskManager_init(file, clock)
    IN /\ tasks' = IF r.exc = "none" THEN r.tasks ELSE <<>>
       /\ next_id' = IF r.exc = "none" THEN r.next_id ELSE PyInt(1)
       /\ alive' = (r.exc = "none")
       /\ last' = Call("__init__", <<>>, None, r.exc, r.printed, FALSE)
       /\ file' = IF r.printed # <<>> THEN save_tasks(<<>>, PyInt(1)) ELSE file
       /\ UNCHANGED <<clock, issued, other, pc>>

\* manager = TaskManager(): a fresh manager constructed on the file, as main does
\* at the start of every invocation (the only caller of load_tasks). When
\* load_tasks raises, no manager exists.
construct ==
    LET r == TaskManager_init(file, clock)
    IN /\ tasks' = IF r.exc = "none" THEN r.tasks ELSE <<>>
       /\ next_id' = IF r.exc = "none" THEN r.next_id ELSE PyInt(1)
       /\ alive' = (r.exc = "none")
       /\ last' = Call("__init__", <<>>, None, r.exc, r.printed, FALSE)
       /\ UNCHANGED <<file, clock, issued, other, pc>>

\* add_task numbering the new task len(self.tasks) + 1
add_task_lenid(title, description) ==
    /\ alive
    /\ next_id.val <= MaxAdds
    /\ \E now \in clock..MaxClock :
         LET task == Task_init(PyStr(title), PyStr(description),
                               PyInt(Len(tasks) + 1), now)
         IN /\ tasks' = Append(tasks, task)
            /\ next_id' = PyInt(next_id.val + 1)
            /\ file' = save_tasks(tasks', next_id')
            /\ clock' = now
            /\ last' = Call("add_task", <<title, description>>, task, "none", <<>>, TRUE)
            /\ issued' = Append(issued, task.id)
    /\ UNCHANGED <<alive, other, pc>>

\* add_task without the call of save_tasks
add_task_nosave(title, description) ==
    /\ alive
    /\ next_id.val <= MaxAdds
    /\ \E now \in clock..MaxClock :
         LET task == Task_init(PyStr(title), PyStr(description), next_id, now)
         IN /\ tasks' = Append(tasks, task)
            /\ next_id' = PyInt(next_id.val + 1)
            /\ clock' = now
            /\ last' = Call("add_task", <<title, description>>, task, "none", <<>>, FALSE)
            /\ issued' = Append(issued, task.id)
    /\ UNCHANGED <<file, alive, other, pc>>

\* manager.add_task(title, description)
add_task(title, description) ==
    /\ alive
    /\ next_id.val <= MaxAdds
    /\ \E now \in clock..MaxClock :
         LET task == Task_init(PyStr(title), PyStr(description), next_id, now)
         IN /\ tasks' = Append(tasks, task)
            /\ next_id' = PyInt(next_id.val + 1)
            /\ file' = save_tasks(tasks', next_id')
            /\ clock' = now
            /\ last' = Call("add_task", <<title, description>>, task, "none", <<>>, TRUE)
            /\ issued' = Append(issued, task.id)
    /\ UNCHANGED <<alive, other, pc>>

\* complete_task without the status check
complete_task_restamp(task_id) ==
    /\ alive
    /\ LET i == get_task(tasks, task_id)
       IN IF i # 0
          THEN \E now \in clock..MaxClock :
                 /\ tasks' = [tasks EXCEPT ![i] = Task_complete(tasks[i], now)]
                 /\ file' = save_tasks(tasks', next_id)
                 /\ clock' = now
                 /\ last' = Call("complete_task", <<task_id>>, PyBool(TRUE), "none",
                                 <<>>, TRUE)
          ELSE /\ last' = Call("complete_task", <<task_id>>, PyBool(FALSE), "none",
                               <<>>, FALSE)
               /\ UNCHANGED <<tasks, file, clock>>
    /\ UNCHANGED <<next_id, alive, issued, other, pc>>

\* complete_task without the call of save_tasks
complete_task_nosave(task_id) ==
    /\ alive
    /\ LET i == get_task(tasks, task_id)
       IN IF i # 0 /\ tasks[i].status # PyStr("completed")
          THEN \E now \in clock..MaxClock :
                 /\ tasks' = [tasks EXCEPT ![i] = Task_complete(tasks[i], now)]
                 /\ clock' = now
                 /\ last' = Call("complete_task", <<task_id>>, PyBool(TRUE), "none",
                                 <<>>, FALSE)
                 /\ UNCHANGED file
          ELSE /\ last' = Call("complete_task", <<task_id>>, PyBool(FALSE), "none",
                               <<>>, FALSE)
               /\ UNCHANGED <<tasks, file, clock>>
    /\ UNCHANGED <<next_id, alive, issued, other, pc>>

\* manager.complete_task(task_id)
complete_task(task_id) ==
    /\ alive
    /\ LET i == get_task(tasks, task_id)
       IN IF i # 0 /\ tasks[i].status # PyStr("completed")
          THEN \E now \in clock..MaxClock :
                 /\ tasks' = [tasks EXCEPT ![i] = Task_complete(tasks[i], now)]
                 /\ file' = save_tasks(tasks', next_id)
                 /\ clock' = now
                 /\ last' = Call("complete_task", <<task_id>>, PyBool(TRUE), "none",
                                 <<>>, TRUE)
          ELSE /\ last' = Call("complete_task", <<task_id>>, PyBool(FALSE), "none",
                               <<>>, FALSE)
               /\ UNCHANGED <<tasks, file, clock>>
    /\ UNCHANGED <<next_id, alive, issued, other, pc>>

\* delete_task recomputing the counter from the tasks left
delete_task_reclaim(task_id) ==
    /\ alive
    /\ LET i == get_task(tasks, task_id)
       IN IF i # 0
          THEN /\ tasks' = list_remove(tasks, i)
               /\ next_id' = PyInt(Len(tasks') + 1)
               /\ file' = save_tasks(tasks', next_id')
               /\ last' = Call("delete_task", <<task_id>>, PyBool(TRUE), "none",
                               <<>>, TRUE)
          ELSE /\ last' = Call("delete_task", <<task_id>>, PyBool(FALSE), "none",
                               <<>>, FALSE)
               /\ UNCHANGED <<tasks, next_id, file>>
    /\ UNCHANGED <<clock, alive, issued, other, pc>>

\* manager.delete_task(task_id)
delete_task(task_id) ==
    /\ alive
    /\ LET i == get_task(tasks, task_id)
       IN IF i # 0
          THEN /\ tasks' = list_remove(tasks, i)
               /\ file' = save_tasks(tasks', next_id)
               /\ last' = Call("delete_task", <<task_id>>, PyBool(TRUE), "none",
                               <<>>, TRUE)
          ELSE /\ last' = Call("delete_task", <<task_id>>, PyBool(FALSE), "none",
                               <<>>, FALSE)
               /\ UNCHANGED <<tasks, file>>
    /\ UNCHANGED <<next_id, clock, alive, issued, other, pc>>

---------------------------------------------------------------------------
(* The calls that only read the store, and Task.complete() called on a     *)
(* task of the store directly.                                             *)

\* bool(value), as `if status:` takes its argument
truthy(v) ==
    CASE v.type = "NoneType" -> FALSE
      [] v.type = "bool" -> v.val
      [] v.type = "int" -> v.val # 0
      [] v.type = "str" -> v.val # ""
      [] v.type = "list" -> DOMAIN v.val # {}
      [] v.type = "dict" -> DOMAIN v.val # {}

ListFilters == {None, PyStr("pending"), PyStr("completed")}   \* status arguments

\* list_tasks keeping the tasks whose status differs from the filter
list_tasks_inverted(status) ==
    /\ alive
    /\ last' = Call("list_tasks", <<status>>,
                    PyList(IF truthy(status)
                           THEN SelectSeq(tasks, LAMBDA task : task.status # status)
                           ELSE tasks),
                    "none", <<>>, FALSE)
    /\ UNCHANGED <<tasks, next_id, file, clock, alive, issued, other, pc>>

\* manager.list_tasks(status)
list_tasks(status) ==
    /\ alive
    /\ last' = Call("list_tasks", <<status>>,
                    PyList(IF truthy(status)
                           THEN SelectSeq(tasks, LAMBDA task : task.status = status)
                           ELSE tasks),
                    "none", <<>>, FALSE)
    /\ UNCHANGED <<tasks, next_id, file, clock, alive, issued, other, pc>>

\* manager.get_task(task_id), called by itself
get_task_call(task_id) ==
    /\ alive
    /\ LET i == get_task(tasks, task_id)
       IN last' = Call("get_task", <<task_id>>, IF i = 0 THEN None ELSE tasks[i],
                       "none", <<>>, FALSE)
    /\ UNCHANGED <<tasks, next_id, file, clock, alive, issued, other, pc>>

\* get_statistics counting as pending every task held
get_statistics_nosub ==
    /\ alive
    /\ LET total == Len(tasks)
           completed == Cardinality({i \in DOMAIN tasks :
                                        tasks[i].status = PyStr("completed")})
       IN last' = Call("get_statistics", <<>>,
                       PyDict([total |-> PyInt(total),
                               completed |-> PyInt(completed),
                               pending |-> PyInt(total)]),
                       "none", <<>>, FALSE)
    /\ UNCHANGED <<tasks, next_id, file, clock, alive, issued, other, pc>>

\* manager.get_statistics()
get_statistics ==
    /\ alive
    /\ LET total == Len(tasks)
           completed == Cardinality({i \in DOMAIN tasks :
                                        tasks[i].status = PyStr("completed")})
       IN last' = Call("get_statistics", <<>>,
                       PyDict([total |-> PyInt(total),
                               completed |-> PyInt(completed),
                               pending |-> PyInt(total - completed)]),
                       "none", <<>>, FALSE)
    /\ UNCHANGED <<tasks, next_id, file, clock, alive, issued, other, pc>>

\* manager.get_task(task_id).complete(): Task.complete() on a held task, not
\* through complete_task
Task_complete_call(task_id) ==
    /\ alive
    /\ LET i == get_task(tasks, task_id)
       IN /\ i # 0
          /\ \E now \in clock..MaxClock :
               /\ tasks' = [tasks EXCEPT ![i] = Task_complete(tasks[i], now)]
               /\ clock' = now
               /\ last' = Call("Task.complete", <<task_id>>, None, "none", <<>>, FALSE)
    /\ UNCHANGED <<next_id, file, alive, issued, other, pc>>

---------------------------------------------------------------------------
(* The mutating calls when save_tasks fails. open(filename, 'w') may raise *)
(* and leave the file as it was; once it has returned the file is empty,   *)
(* and a json.dump that raises leaves the text written so far, which is no *)
(* JSON document. The exception leaves the call and, as main catches       *)
(* nothing, ends the process; tasks and next_id are the manager's fields   *)
(* when it was raised.                                                     *)

\* The file after a save_tasks that raised; torn: open had truncated the file.
save_fails(f, torn) == IF torn THEN InvalidText ELSE f

\* add_task undoing its append and its increment when save_tasks raises
add_task_save_fails_rollback(title, description, torn) ==
    /\ alive
    /\ next_id.val <= MaxAdds
    /\ \E now \in clock..MaxClock :
         /\ file' = save_fails(file, torn)
         /\ clock' = now
         /\ last' = Call("add_task", <<title, description>>, None, "OSError",
                         <<>>, FALSE)
    /\ alive' = FALSE
    /\ UNCHANGED <<tasks, next_id, issued, other, pc>>

\* manager.add_task(title, description), save_tasks raising
add_task_save_fails(title, description, torn) ==
    /\ alive
    /\ next_id.val <= MaxAdds
    /\ \E now \in clock..MaxClock :
         LET task == Task_init(PyStr(title), PyStr(description), next_id, now)
         IN /\ tasks' = Append(tasks, task)
            /\ next_id' = PyInt(next_id.val + 1)
            /\ file' = save_fails(file, torn)
            /\ clock' = now
            /\ last' = Call("add_task", <<title, description>>, None, "OSError",
                            <<>>, FALSE)
    /\ alive' = FALSE
    /\ UNCHANGED <<issued, other, pc>>

\* manager.complete_task(task_id), save_tasks raising
complete_task_save_fails(task_id, torn) ==
    /\ alive
    /\ LET i == get_task(tasks, task_id)
       IN /\ i # 0
          /\ tasks[i].status # PyStr("completed")
          /\ \E now \in clock..MaxClock :
               /\ tasks' = [tasks EXCEPT ![i] = Task_complete(tasks[i], now)]
               /\ file' = save_fails(file, torn)
               /\ clock' = now
               /\ last' = Call("complete_task", <<task_id>>, None, "OSError",
                               <<>>, FALSE)
    /\ alive' = FALSE
    /\ UNCHANGED <<next_id, issued, other, pc>>

\* manager.delete_task(task_id), save_tasks raising
delete_task_save_fails(task_id, torn) ==
    /\ alive
    /\ LET i == get_task(tasks, task_id)
       IN /\ i # 0
          /\ tasks' = list_remove(tasks, i)
          /\ file' = save_fails(file, torn)
          /\ last' = Call("delete_task", <<task_id>>, None, "OSError", <<>>, FALSE)
    /\ alive' = FALSE
    /\ UNCHANGED <<next_id, clock, issued, other, pc>>

---------------------------------------------------------------------------
(* save_tasks in two steps, as another process sees it. open(filename,     *)
(* 'w') creates or empties the file; json.dump collects the text in the    *)
(* file object's buffer, which holds a document of this size whole, and    *)
(* leaving the with block writes it at the start of the file. A text that  *)
(* another process wrote in between stays behind the document where it is  *)
(* the longer one, and the file is then no JSON document.                  *)

\* open(self.filename, 'w')
save_open(f) == TextFile(0)

\* json.dump and the close of the file, on the file as it is by now
save_close(f, self_tasks, self_next_id) ==
    LET new == save_tasks(self_tasks, self_next_id)
    IN IF text_len(f) <= text_len(new) THEN new ELSE TextFile(text_len(f))

---------------------------------------------------------------------------
(* A second process on the same file. It takes no lock and shares nothing  *)
(* with the first but the file and the clock. A call is taken in the steps *)
(* the other process can tell apart: the change of the store in memory,    *)
(* with the reading of the clock it takes; the open in save_tasks; and the *)
(* json.dump and close, after which the call returns.                      *)

NoProcess == [phase |-> "none"]

\* The second process has been started and the first has been in a call since.
FirstActed == other.phase # "none" /\ last.op # "__init__"

\* manager.add_task(title, description) up to its call of save_tasks
add_task_begin(title, description) ==
    /\ alive
    /\ pc = "idle"
    /\ ~FirstActed
    /\ next_id.val <= MaxAdds
    /\ \E now \in clock..MaxClock :
         LET task == Task_init(PyStr(title), PyStr(description), next_id, now)
         IN /\ tasks' = Append(tasks, task)
            /\ next_id' = PyInt(next_id.val + 1)
            /\ clock' = now
            /\ last' = Call("add_task", <<title, description>>, task, "none", <<>>, FALSE)
    /\ pc' = "save"
    /\ UNCHANGED <<file, alive, issued, other>>

\* manager.complete_task(task_id) of a pending task up to its call of save_tasks
complete_task_begin(task_id) ==
    /\ alive
    /\ pc = "idle"
    /\ ~FirstActed
    /\ LET i == get_task(tasks, task_id)
       IN /\ i # 0
          /\ tasks[i].status # PyStr("completed")
          /\ \E now \in clock..MaxClock :
               /\ tasks' = [tasks EXCEPT ![i] = Task_complete(tasks[i], now)]
               /\ clock' = now
               /\ last' = Call("complete_task", <<task_id>>, PyBool(TRUE), "none",
                               <<>>, FALSE)
    /\ pc' = "save"
    /\ UNCHANGED <<next_id, file, alive, issued, other>>

\* manager.delete_task(task_id) of a held task up to its call of save_tasks
delete_task_begin(task_id) ==
    /\ alive
    /\ pc = "idle"
    /\ ~FirstActed
    /\ LET i == get_task(tasks, task_id)
       IN /\ i # 0
          /\ tasks' = list_remove(tasks, i)
          /\ last' = Call("delete_task", <<task_id>>, PyBool(TRUE), "none", <<>>, FALSE)
    /\ pc' = "save"
    /\ UNCHANGED <<next_id, file, clock, alive, issued, other>>

\* save_tasks() up to the open of the file: inside add_task, complete_task or
\* delete_task, or called by itself on the manager as it is
save_tasks_open ==
    /\ alive
    /\ \/ pc = "save" /\ UNCHANGED last
       \/ /\ pc = "idle"
          /\ ~FirstActed
          /\ last' = Call("save_tasks", <<>>, None, "none", <<>>, FALSE)
    /\ file' = save_open(file)
    /\ pc' = "open"
    /\ UNCHANGED <<tasks, next_id, clock, alive, issued, other>>

\* The rest of save_tasks(): json.dump and the close of the file; the call that
\* made it returns, add_task with its task.
save_tasks_close ==
    /\ pc = "open"
    /\ file' = save_close(file, tasks, next_id)
    /\ last' = [last EXCEPT !.saved = TRUE]
    /\ issued' = IF last.op = "add_task" THEN Append(issued, last.ret.id) ELSE issued
    /\ pc' = "idle"
    /\ UNCHANGED <<tasks, next_id, clock, alive, other>>

\* manager = TaskManager() in the second process, started when the first has
\* just constructed its manager on the file (same_file) or is inside a call;
\* base and base_next_id keep what the second process loaded.
other_construct ==
    /\ other.phase = "none"
    /\ alive
    /\ last.op = "__init__" \/ pc # "idle"
    /\ LET r == TaskManager_init(file, clock)
       IN /\ r.exc = "none"
          /\ other' = [phase |-> "loaded", tasks |-> r.tasks, next_id |-> r.next_id,
                       base |-> r.tasks, base_next_id |-> r.next_id,
                       printed |-> r.printed,
                       same_file |-> (last.op = "__init__" /\ pc = "idle")]
    /\ UNCHANGED <<tasks, next_id, file, clock, alive, last, issued, pc>>

\* manager.add_task(title, description) in the second process, its one call, up
\* to its call of save_tasks; ret is the task it will return.
other_add_task_begin(title, description) ==
    /\ other.phase = "loaded"
    /\ other.next_id.val <= MaxAdds
    /\ \E now \in clock..MaxClock :
         LET task == Task_init(PyStr(title), PyStr(description), other.next_id, now)
         IN /\ other' = [other EXCEPT !.phase = "save",
                                      !.tasks = Append(other.tasks, task),
                                      !.next_id = PyInt(other.next_id.val + 1)] @@
                        [ret |-> task]
            /\ clock' = now
    /\ UNCHANGED <<tasks, next_id, file, alive, last, issued, pc>>

\* save_tasks() in the second process up to the open of the file
other_save_tasks_open ==
    /\ other.phase = "save"
    /\ other' = [other EXCEPT !.phase = "open"]
    /\ file' = save_open(file)
    /\ UNCHANGED <<tasks, next_id, clock, alive, last, issued, pc>>

\* The rest of the second process's save_tasks() and the return of its call;
\* after_first: the first process had closed the file of its call before.
other_save_tasks_close ==
    /\ other.phase = "open"
    /\ other' = [other EXCEPT !.phase = "done"] @@
                [after_first |-> (FirstActed /\ pc = "idle")]
    /\ file' = save_close(file, other.tasks, other.next_id)
    /\ UNCHANGED <<tasks, next_id, clock, alive, last, issued, pc>>

Init ==
    /\ file \in InitialFiles
    /\ clock = 0
    /\ issued = <<>>
    /\ other = NoProcess
    /\ pc = "idle"
    /\ LET r == TaskManager_init(file, 0)
       IN /\ tasks = IF r.exc = "none" THEN r.tasks ELSE <<>>
          /\ next_id = IF r.exc = "none" THEN r.next_id ELSE PyInt(1)
          /\ alive = (r.exc = "none")
          /\ last = Call("__init__", <<>>, None, r.exc, r.printed, FALSE)

Next ==
    \/ construct
    \/ \E in \in AddInputs : add_task(in[1], in[2])
    \/ \E task_id \in TaskIds : complete_task(task_id)
    \/ \E task_id \in TaskIds : delete_task(task_id)

Spec == Init /\ [][Next]_vars

---------------------------------------------------------------------------
(* The store that starts empty (no file, or a file load_tasks rejected and  *)
(* recovered from), with every call of the manager.                        *)

InitEmpty == Init /\ alive /\ tasks = <<>>

NextCalls ==
    \/ Next
    \/ \E status \in ListFilters : list_tasks(status)
    \/ \E task_id \in TaskIds : get_task_call(task_id)
    \/ get_statistics

SpecCalls == InitEmpty /\ [][NextCalls]_vars

---------------------------------------------------------------------------
(* The store started without a file, with saves that may fail. add_task is *)
(* called while it has returned fewer than MaxAdds ids.                    *)

InitNoFile == Init /\ file = NoFile

NextFaults ==
    \/ construct
    \/ \E in \in AddInputs : Len(issued) < MaxAdds /\ add_task(in[1], in[2])
    \/ \E task_id \in TaskIds : complete_task(task_id)
    \/ \E task_id \in TaskIds : delete_task(task_id)
    \/ \E in \in AddInputs, torn \in BOOLEAN : add_task_save_fails(in[1], in[2], torn)
    \/ \E task_id \in TaskIds, torn \in BOOLEAN : complete_task_save_fails(task_id, torn)
    \/ \E task_id \in TaskIds, torn \in BOOLEAN : delete_task_save_fails(task_id, torn)

SpecFaults == InitNoFile /\ [][NextFaults]_vars

---------------------------------------------------------------------------
(* Two processes: the first fills the file with add_task calls and         *)
(* constructs its manager on it; the second is started and constructs its  *)
(* own; each then makes one call, the first add_task, complete_task,       *)
(* delete_task or save_tasks (it may be in it when the second is started), *)
(* the second add_task. The steps of the two calls interleave in every     *)
(* order.                                                                  *)

NextTwo ==
    \/ other.phase = "none" /\ pc = "idle" /\ construct
    \/ \E in \in AddInputs : add_task_begin(in[1], in[2])
    \/ other.phase # "none" /\ \E task_id \in TaskIds : complete_task_begin(task_id)
    \/ other.phase # "none" /\ \E task_id \in TaskIds : delete_task_begin(task_id)
    \/ save_tasks_open
    \/ save_tasks_close
    \/ other_construct
    \/ \E in \in AddInputs : other_add_task_begin(in[1], in[2])
    \/ other_save_tasks_open
    \/ other_save_tasks_close

SpecTwo == InitNoFile /\ [][NextTwo]_vars

---------------------------------------------------------------------------
(* Tasks completed through complete_task and by Task.complete() called on  *)
(* them directly.                                                          *)

NextTask ==
    \/ \E in \in AddInputs : add_task(in[1], in[2])
    \/ \E task_id \in TaskIds : complete_task(task_id)
    \/ \E task_id \in TaskIds : Task_complete_call(task_id)

SpecTask == InitNoFile /\ [][NextTask]_vars

---------------------------------------------------------------------------
(* Properties.                                                             *)

Completed == PyStr("completed")
Pending == PyStr("pending")

\* The manager a fresh TaskManager(...) would be, were the file f on disk.
Fresh(f) == TaskManager_init(f, clock)

\* C1 (round trip): in every state a manager can reach by add_task, complete_task
\* and delete_task, saving it and constructing a fresh manager on the saved file
\* gives the same tasks in the same order, field for field, and the same next_id.
C1_RoundTrip ==
    alive =>
        LET r == Fresh(save_tasks(tasks, next_id))
        IN /\ r.exc = "none"
           /\ Len(r.tasks) = Len(tasks)
           /\ \A i \in DOMAIN tasks :
                /\ r.tasks[i].id = tasks[i].id
                /\ r.tasks[i].title = tasks[i].title
                /\ r.tasks[i].description = tasks[i].description
                /\ r.tasks[i].status = tasks[i].status
                /\ r.tasks[i].created_at = tasks[i].created_at
                /\ r.tasks[i].completed_at = tasks[i].completed_at
           /\ r.next_id = next_id

\* C1 witness: a store holding a completed and a pending task after a deletion.
C1_Witness ==
    /\ alive
    /\ \E i \in DOMAIN tasks : tasks[i].status = Completed
    /\ \E i \in DOMAIN tasks : tasks[i].status = Pending
    /\ last.op = "delete_task" /\ last.ret = PyBool(TRUE)
    /\ clock > 0

\* C2 (id monotonicity): the ids add_task has returned are strictly increasing in
\* call order, and every one of them is below next_id, the id the next add_task
\* will assign, whatever was deleted or completed in between.
C2_IdMonotonic ==
    /\ \A i, j \in DOMAIN issued : i < j => issued[i].val < issued[j].val
    /\ \A i \in DOMAIN issued : issued[i].val < next_id.val

\* C2 witness: an add_task that followed a deletion of an earlier task.
C2_Witness ==
    /\ last.op = "add_task"
    /\ Len(issued) = 3
    /\ Len(tasks) < 3

\* C3 (status/timestamp coupling): every task held has completed_at set exactly
\* when its status is completed.
C3_StatusTimestamp ==
    \A i \in DOMAIN tasks :
        (tasks[i].completed_at # None) <=> (tasks[i].status = Completed)

\* C3 witness: a fresh manager loaded a completed and a pending task from the file.
C3_Witness ==
    /\ last.op = "__init__"
    /\ \E i \in DOMAIN tasks :
         tasks[i].status = Completed /\ tasks[i].completed_at = isoformat(1)
    /\ \E i \in DOMAIN tasks :
         tasks[i].status = Pending /\ tasks[i].completed_at = None

\* The index in tasks of the task the last complete_task / delete_task call named,
\* 0 when none has that id.
Target(call) == get_task(tasks, call.args[1])

\* C4 (idempotent completion): complete_task on a task that is already completed
\* returns False, leaves that task's completed_at and everything else in the
\* store as it was, and does not write the file.
C4_IdempotentCompletion ==
    [][(/\ last'.op = "complete_task"
        /\ Target(last') # 0
        /\ tasks[Target(last')].status = Completed)
       => /\ last'.ret = PyBool(FALSE)
          /\ last'.exc = "none"
          /\ tasks'[Target(last')].completed_at = tasks[Target(last')].completed_at
          /\ tasks' = tasks
          /\ next_id' = next_id
          /\ file' = file
          /\ ~last'.saved]_vars

\* C4 witness: complete_task was called with the id of a held task that was
\* completed at an earlier clock reading, and returned False.
C4_Witness ==
    /\ last.op = "complete_task"
    /\ last.ret = PyBool(FALSE)
    /\ Target(last) # 0
    /\ tasks[Target(last)].completed_at = isoformat(0)
    /\ clock = 1

\* C5 (the other outcomes of complete_task): with no task of that id it returns
\* False and changes neither the store nor the file; on a pending task it returns
\* True, sets the status to completed, stamps completed_at with the current time,
\* writes the file, and leaves the other tasks, the order, next_id and the
\* target's id, title, description and created_at as they were.
C5_CompleteOutcomes ==
    [][last'.op = "complete_task" =>
        LET i == Target(last')
        IN /\ i = 0 =>
                /\ last'.ret = PyBool(FALSE)
                /\ last'.exc = "none"
                /\ tasks' = tasks
                /\ next_id' = next_id
                /\ file' = file
                /\ ~last'.saved
           /\ (i # 0 /\ tasks[i].status = Pending) =>
                /\ last'.ret = PyBool(TRUE)
                /\ last'.exc = "none"
                /\ Len(tasks') = Len(tasks)
                /\ tasks'[i].status = Completed
                /\ tasks'[i].completed_at = isoformat(clock')
                /\ tasks'[i].completed_at # None
                /\ tasks'[i].id = tasks[i].id
                /\ tasks'[i].title = tasks[i].title
                /\ tasks'[i].description = tasks[i].description
                /\ tasks'[i].created_at = tasks[i].created_at
                /\ \A j \in DOMAIN tasks : j # i => tasks'[j] = tasks[j]
                /\ next_id' = next_id
                /\ last'.saved
                /\ file' = save_tasks(tasks', next_id')]_vars

\* C5 witness: complete_task returned True on the second of three tasks, at a
\* clock reading later than the task's creation.
C5_Witness ==
    /\ last.op = "complete_task"
    /\ last.ret = PyBool(TRUE)
    /\ Len(tasks) = 3
    /\ Target(last) = 2
    /\ tasks[2].created_at = isoformat(0)
    /\ tasks[2].completed_at = isoformat(1)

\* C6 (delete_task): on a held id it returns True and removes exactly that task,
\* the rest keeping fields and order, next_id unchanged and different from the
\* deleted id, the file rewritten; on an id not held it returns False and nothing
\* changes.
C6_DeleteOutcomes ==
    [][last'.op = "delete_task" =>
        LET i == Target(last')
        IN /\ i = 0 =>
                /\ last'.ret = PyBool(FALSE)
                /\ last'.exc = "none"
                /\ tasks' = tasks
                /\ next_id' = next_id
                /\ file' = file
                /\ ~last'.saved
           /\ i # 0 =>
                /\ last'.ret = PyBool(TRUE)
                /\ last'.exc = "none"
                /\ Len(tasks') = Len(tasks) - 1
                /\ \A j \in DOMAIN tasks' :
                     tasks'[j] = IF j < i THEN tasks[j] ELSE tasks[j + 1]
                /\ \A j \in DOMAIN tasks' : tasks'[j].id # tasks[i].id
                /\ next_id' = next_id
                /\ next_id' # tasks[i].id
                /\ last'.saved
                /\ file' = save_tasks(tasks', next_id')]_vars

\* C6 witness: the store held ids 1, 2, 3; delete_task(2) returned True; the
\* list is [1, 3] and the next add_task will assign 4.
C6_Witness ==
    /\ last.op = "delete_task"
    /\ last.args = <<2>>
    /\ last.ret = PyBool(TRUE)
    /\ Len(tasks) = 2
    /\ tasks[1].id = PyInt(1)
    /\ tasks[2].id = PyInt(3)
    /\ next_id = PyInt(4)

\* C7 (add_task): the new task has the id next_id had before the call, the
\* title and description given, status pending and no completed_at; it is
\* appended at the end, next_id grows by exactly one, the tasks held before are
\* unchanged, the task is returned, and on a manager that was just constructed
\* with no file the returned id is 1.
C7_AddTask ==
    [][last'.op = "add_task" =>
        LET task == last'.ret
        IN /\ last'.exc = "none"
           /\ task.id = next_id
           /\ task.title = PyStr(last'.args[1])
           /\ task.description = PyStr(last'.args[2])
           /\ task.status = Pending
           /\ task.completed_at = None
           /\ task.created_at = isoformat(clock')
           /\ tasks' = Append(tasks, task)
           /\ next_id' = PyInt(next_id.val + 1)
           /\ (file = NoFile /\ last.op = "__init__") => task.id = PyInt(1)]_vars

\* C7 witness: add_task returned the third task of a store that holds a
\* completed task.
C7_Witness ==
    /\ last.op = "add_task"
    /\ last.ret.id = PyInt(3)
    /\ Len(tasks) = 3
    /\ tasks[3] = last.ret
    /\ tasks[1].status = Completed
    /\ next_id = PyInt(4)

\* The file holds exactly what save_tasks writes for the store in memory.
InSync == file = save_tasks(tasks, next_id)

\* The call changed the store: an add_task, or a complete_task / delete_task that
\* returned True.
Mutated(call) ==
    \/ call.op = "add_task"
    \/ call.op \in {"complete_task", "delete_task"} /\ call.ret = PyBool(TRUE)

\* The manager in memory equals the one a fresh load of the file gives.
LoadsAsMemory ==
    LET r == Fresh(file)
    IN r.exc = "none" /\ r.tasks = tasks /\ r.next_id = next_id

\* C8 (persist on every mutation): right after every add_task, every complete_task
\* of a pending task and every delete_task of a held task, save_tasks has run and
\* the file holds exactly the tasks in order and next_id; from the first add_task
\* on the file holds the store's state in every state between calls; and in every
\* state the manager equals what a fresh load of the file gives, so memory and
\* file never differ between calls.
C8_PersistOnMutation ==
    /\ Mutated(last) => (last.saved /\ InSync)
    /\ issued # <<>> => InSync
    /\ alive => LoadsAsMemory

\* C8 witness: complete_task has just completed one of two held tasks and the
\* file holds both tasks and next_id as they are in memory.
C8_Witness ==
    /\ last.op = "complete_task"
    /\ last.ret = PyBool(TRUE)
    /\ last.saved
    /\ Len(tasks) = 2
    /\ InSync

RequiredMembers == {"id", "title", "description", "status", "created_at"}

\* The document has the members load_tasks requires: an object with a "tasks"
\* array of objects, each with id, title, description, status and created_at.
WellFormedDoc(doc) ==
    /\ doc.type = "object"
    /\ "tasks" \in DOMAIN doc.val
    /\ doc.val["tasks"].type = "array"
    /\ \A i \in DOMAIN doc.val["tasks"].val :
         /\ doc.val["tasks"].val[i].type = "object"
         /\ RequiredMembers \subseteq DOMAIN doc.val["tasks"].val[i].val

\* The file exists and is not parseable or lacks required members.
Malformed(f) == f.kind = "invalid" \/ (f.kind = "json" /\ ~WellFormedDoc(f.doc))

\* The load error was handled inside load_tasks: nothing raised, the error was
\* printed, and the manager is empty with next_id = 1.
Recovered ==
    /\ alive
    /\ last.exc = "none"
    /\ last.printed # <<>>
    /\ tasks = <<>>
    /\ next_id = PyInt(1)

\* C9 (load of a malformed file): a manager constructed on a file that exists but
\* is not parseable or lacks required members reports the error, is left with no
\* tasks and next_id = 1, and load_tasks does not raise.
C9_MalformedLoadRecovered ==
    (last.op = "__init__" /\ Malformed(file)) => Recovered

\* C10 (every load error is recovered locally): a manager constructed on a file
\* that exists but cannot be read is reset to empty with next_id = 1 and the error
\* is reported as a message, not raised to the caller.
C10_UnreadableLoadRecovered ==
    (last.op = "__init__" /\ file.kind = "unreadable") => Recovered

\* C11 (load without a file): whenever load_tasks runs while the file does not
\* exist, which it does inside the constructor, it returns without an error and
\* without output, and the store has no tasks and next_id = 1.
C11_AbsentFileLoad ==
    (last.op = "__init__" /\ file = NoFile) =>
        /\ alive
        /\ last.exc = "none"
        /\ last.printed = <<>>
        /\ tasks = <<>>
        /\ next_id = PyInt(1)

\* C11 witness: a manager has been constructed with no file on disk.
C11_Witness ==
    /\ last.op = "__init__"
    /\ file.kind = "absent"
    /\ alive
    /\ Len(tasks) = 0

\* save_tasks raised inside the call.
SaveFailed(call) ==
    /\ call.op \in {"add_task", "complete_task", "delete_task"}
    /\ call.exc # "none"

\* C12 (save failure): when save_tasks fails inside add_task, complete_task or
\* delete_task, the exception leaves the call (it returns nothing and the save
\* is not done) and the manager keeps the mutation made before the save: the
\* appended task and the incremented next_id, the completed task, the removal.
\* Nothing but that mutation has changed in memory, so save_tasks itself changed
\* nothing; the same holds when the save succeeds.
C12_SaveFailureKeepsMutation ==
    [][/\ SaveFailed(last') =>
            /\ last'.ret = None
            /\ ~last'.saved
            /\ tasks' # tasks
       /\ (SaveFailed(last') \/ Mutated(last')) =>
            CASE last'.op = "add_task" ->
                   /\ tasks' = Append(tasks, tasks'[Len(tasks')])
                   /\ tasks'[Len(tasks')].id = next_id
                   /\ tasks'[Len(tasks')].status = Pending
                   /\ next_id' = PyInt(next_id.val + 1)
              [] last'.op = "complete_task" ->
                   /\ Target(last') # 0
                   /\ tasks' = [tasks EXCEPT ![Target(last')] =
                                   [@ EXCEPT !.status = Completed,
                                             !.completed_at = isoformat(clock')]]
                   /\ next_id' = next_id
              [] last'.op = "delete_task" ->
                   /\ Target(last') # 0
                   /\ tasks' = list_remove(tasks, Target(last'))
                   /\ next_id' = next_id
    ]_vars

\* C12 witness: add_task has raised from save_tasks on a store of one task; the
\* manager holds two tasks and next_id = 3, the file still one task.
C12_Witness ==
    /\ last.op = "add_task"
    /\ last.exc = "OSError"
    /\ Len(tasks) = 2
    /\ next_id = PyInt(3)
    /\ file.kind = "json"
    /\ Len(file.doc.val["tasks"].val) = 1

\* The positions in the store of the tasks with the given status.
WithStatus(status) == {i \in DOMAIN tasks : tasks[i].status = status}

\* The sequence r holds the tasks of the store at the positions in keep, each
\* once, in the order of the store.
HoldsInOrder(r, keep) ==
    /\ Len(r) = Cardinality(keep)
    /\ \A k \in DOMAIN r :
         \E i \in keep : /\ r[k] = tasks[i]
                         /\ Cardinality({j \in keep : j < i}) = k - 1

\* C13 (listing): list_tasks("pending") and list_tasks("completed") return
\* exactly the tasks whose status is the filter, in the order of the store;
\* list_tasks() returns every task in that order; the result is a list, empty
\* when nothing matches, nothing is raised, and the store, its counter and the
\* file are as before the call.
C13_ListTasks ==
    [][last'.op = "list_tasks" =>
         /\ last'.exc = "none"
         /\ last'.ret.type = "list"
         /\ LET status == last'.args[1]
            IN HoldsInOrder(last'.ret.val,
                            IF status = None THEN DOMAIN tasks ELSE WithStatus(status))
         /\ UNCHANGED <<tasks, next_id, file>>
    ]_vars

\* C13 witness: list_tasks("completed") has returned the last of three tasks,
\* the only completed one.
C13_Witness ==
    /\ last.op = "list_tasks"
    /\ last.args = <<Completed>>
    /\ Len(tasks) = 3
    /\ WithStatus(Completed) = {3}
    /\ last.ret = PyList(<<tasks[3]>>)

\* C14 (statistics): get_statistics, called in any state of the store, returns
\* total = the number of tasks held, completed = the number of tasks with status
\* completed, pending = the number of tasks with status pending, and total =
\* completed + pending.
C14_StatsConsistency ==
    last.op = "get_statistics" =>
        LET stats == last.ret.val
        IN /\ stats.total = PyInt(Len(tasks))
           /\ stats.completed = PyInt(Cardinality(WithStatus(Completed)))
           /\ stats.pending = PyInt(Cardinality(WithStatus(Pending)))
           /\ stats.total.val = stats.completed.val + stats.pending.val

\* C14 witness: get_statistics has counted two tasks, one of them completed.
C14_Witness ==
    /\ last.op = "get_statistics"
    /\ last.ret = PyDict([total |-> PyInt(2), completed |-> PyInt(1),
                          pending |-> PyInt(1)])
    /\ Len(tasks) = 2

\* C15 (last successful save wins): a save_tasks that fails, at whatever point,
\* leaves the file holding what the last successful save wrote, and no later
\* construction meets a file it cannot load (it neither raises nor reports a
\* load error and resets the store).
C15_LastSuccessfulSaveWins ==
    [][/\ SaveFailed(last') => file' = file
       /\ last'.op = "__init__" => (last'.exc = "none" /\ last'.printed = <<>>)
    ]_vars

\* Both processes have constructed their manager on the same file and each has
\* then made a call that changed its store and has returned.
BothMutated ==
    /\ other.phase = "done"
    /\ other.same_file
    /\ FirstActed
    /\ Mutated(last)
    /\ pc = "idle"

\* The first process's manager holds what both loaded, changed by its own call
\* and by nothing else.
FirstAlone ==
    LET i == get_task(other.base, last.args[1])
    IN CASE last.op = "add_task" ->
              tasks = Append(other.base, last.ret) /\ next_id.val = other.base_next_id.val + 1
         [] last.op = "complete_task" ->
              /\ i # 0
              /\ \E now \in 0..MaxClock :
                   tasks = [other.base EXCEPT ![i] = Task_complete(@, now)]
              /\ next_id = other.base_next_id
         [] last.op = "delete_task" ->
              i # 0 /\ tasks = list_remove(other.base, i) /\ next_id = other.base_next_id

\* The second process's manager holds what both loaded and the task it added.
OtherAlone ==
    /\ other.tasks = Append(other.base, other.ret)
    /\ other.next_id.val = other.base_next_id.val + 1

\* C16 (last writer wins): when two processes have each constructed a manager on
\* the same file and each made a mutating call, the file holds exactly the tasks
\* and next_id of the process that saved last, which are what both loaded
\* changed by that process's call alone: the other process's mutation is not in
\* the file.
C16_LastWriterWins ==
    BothMutated =>
        IF other.after_first
        THEN file = save_tasks(other.tasks, other.next_id) /\ OtherAlone
        ELSE file = save_tasks(tasks, next_id) /\ FirstAlone

\* C17 (Task.complete has no guard): Task.complete() called on a held task,
\* completed already or not, leaves its status completed and sets completed_at
\* to the current time, changing nothing else; complete_task on a completed
\* task returns False before it calls Task.complete(), so the task keeps its
\* completed_at.
C17_CompleteHasNoGuard ==
    [][/\ last'.op = "Task.complete" =>
            LET i == Target(last')
            IN /\ i # 0
               /\ tasks'[i].status = Completed
               /\ tasks'[i].completed_at = isoformat(clock')
               /\ tasks' = [tasks EXCEPT ![i] =
                               [@ EXCEPT !.status = Completed,
                                         !.completed_at = isoformat(clock')]]
               /\ UNCHANGED <<next_id, file>>
       /\ (/\ last'.op = "complete_task"
           /\ Target(last') # 0
           /\ tasks[Target(last')].status = Completed) =>
            /\ last'.ret = PyBool(FALSE)
            /\ tasks' = tasks
    ]_vars

\* C17 witness: task 1 was completed through complete_task at time 0, as the file
\* holds it, and Task.complete() called on it again has stamped it at time 1.
C17_Witness ==
    /\ last.op = "Task.complete"
    /\ last.args = <<1>>
    /\ file.kind = "json"
    /\ Len(tasks) >= 1
    /\ file.doc.val["tasks"].val[1].val["status"] = JStr("completed")
    /\ file.doc.val["tasks"].val[1].val["completed_at"] = JStr(isoformat(0).val)
    /\ tasks[1].status = Completed
    /\ tasks[1].completed_at = isoformat(1)

\* The ids held are strictly increasing in list order, each at least 1 and
\* below next_id, and next_id is 1 plus the number of add_task calls made.
IdsInOrder ==
    /\ \A i, j \in DOMAIN tasks : i < j => tasks[i].id.val < tasks[j].id.val
    /\ \A i \in DOMAIN tasks : 1 <= tasks[i].id.val /\ tasks[i].id.val < next_id.val
    /\ next_id.val = 1 + Len(issued)

\* C18 (ids and counter): in every state reached from an empty store by add_task,
\* complete_task and delete_task (and the calls that only read), the held ids are
\* strictly increasing in list order, every held id is at least 1 and below
\* next_id, and next_id is 1 plus the number of add_task calls made so far; a
\* step that changes next_id is an add_task and raises it by one.
C18_IdsAndCounter ==
    /\ []IdsInOrder
    /\ [][next_id' # next_id =>
            (last'.op = "add_task" /\ next_id'.val = next_id.val + 1)]_vars

\* C18 witness: of three tasks added the second has been deleted; ids 1 and 3 are
\* held in that order and next_id is 4.
C18_Witness ==
    /\ last.op = "delete_task"
    /\ last.ret = PyBool(TRUE)
    /\ Len(issued) = 3
    /\ Len(tasks) = 2
    /\ tasks[1].id = PyInt(1)
    /\ tasks[2].id = PyInt(3)
    /\ next_id = PyInt(4)

\* C19 (one invocation per command): a manager constructed afresh on the file
\* that a manager left behind holds the same tasks in the same order and the same
\* next_id, and leaves the file as it is; it reports no load error unless the file
\* is a malformed one the program did not write. Every command therefore meets
\* the same store, and returns the same id or boolean, whether it runs on one
\* long-lived manager or on a manager constructed for it, as long as no load or
\* save fails.
C19_FreshManagerPerCommand ==
    [][(last'.op = "__init__" /\ alive) =>
         /\ alive'
         /\ last'.exc = "none"
         /\ (last'.printed = <<>> \/ Malformed(file))
         /\ tasks' = tasks
         /\ next_id' = next_id
         /\ file' = file
    ]_vars

\* C19 witness: a manager has been constructed on the file left by three
\* add_task calls, a completion and a deletion, and holds what they left.
C19_Witness ==
    /\ last.op = "__init__"
    /\ alive
    /\ Len(issued) = 3
    /\ Len(tasks) = 2
    /\ tasks[1].status = Completed
    /\ tasks[2].id = PyInt(3)
    /\ next_id = PyInt(4)

\* C20 (the file after a load error): a file that load_tasks rejected, resetting
\* the store to empty, stays as it is through constructions, list_tasks, get_task,
\* get_statistics and complete_task / delete_task calls that return False, none
\* of which writes the file; the first call that changes the store overwrites it
\* with a well-formed document holding exactly the store's tasks and next_id, and
\* when that call is add_task the document holds the one task, with id 1, and
\* next_id 2.
C20_FileAfterLoadError ==
    /\ [](Mutated(last) => (file.kind = "json" /\ WellFormedDoc(file.doc) /\ InSync))
    /\ [][/\ ~Mutated(last') => (file' = file /\ ~last'.saved)
          /\ Mutated(last') => last'.saved
          /\ (Malformed(file) /\ last'.op = "add_task") =>
               /\ Len(tasks') = 1
               /\ tasks'[1].id = PyInt(1)
               /\ next_id' = PyInt(2)
               /\ Len(file'.doc.val["tasks"].val) = 1
               /\ file'.doc.val["next_id"] = JNum(2)
       ]_vars

\* C20 witness: the file was rejected by load_tasks, the store is empty, and a
\* get_statistics call has left the file as it was.
C20_Witness ==
    /\ last.op = "get_statistics"
    /\ Malformed(file)
    /\ tasks = <<>>
    /\ next_id = PyInt(1)
    /\ last.ret.val.total = PyInt(0)

====
